---- MODULE Spec2Model ----
(***************************************************************************)
(* Build-error reconciliation of the inco VS Code extension.               *)
(*                                                                         *)
(* `go build -overlay` reports errors against generated ("shadow") files   *)
(* or, when a //line marker took effect, against the original .inco.go     *)
(* files.  parseGoErrors maps every reported position back to a line of    *)
(* an original file, snaps it to the nearest preceding @inco: directive    *)
(* and groups the de-duplicated diagnostics by original file.              *)
(*                                                                         *)
(* Texts are modelled character by character: a path, a message and a      *)
(* line of a file are sequences of one-character strings, so that the      *)
(* regular expressions, the suffix and prefix tests and path.resolve are   *)
(* computed the way the code computes them.                                *)
(***************************************************************************)
EXTENDS Integers, Sequences, FiniteSets, TLC

(***************************************************************************)
(* Bounds and program constants                                            *)
(***************************************************************************)

\* Largest number of matched error lines in one compiler output.
MaxOutput == 2

\* "Use a generous upper bound of 30 lines" (snapToDirectiveLine).
MaxSnapDistance == 30

\* The value both lookups return for "not found".
NotFound == -1

(***************************************************************************)
(* Characters and strings                                                  *)
(***************************************************************************)

Digits == <<"0", "1", "2", "3", "4", "5", "6", "7", "8", "9">>

IsDigit(c) == \E i \in 1..10 : Digits[i] = c

DigitValue(c) == (CHOOSE i \in 1..10 : Digits[i] = c) - 1

\* The characters the class \s matches among those a line can hold.
IsSpace(c) == c \in {" ", "\t", "\r"}

StartsWith(s, prefix) ==
  /\ Len(prefix) <= Len(s)
  /\ \A i \in 1..Len(prefix) : s[i] = prefix[i]

EndsWith(s, suffix) ==
  /\ Len(suffix) <= Len(s)
  /\ \A i \in 1..Len(suffix) : s[Len(s) - Len(suffix) + i] = suffix[i]

\* s[from..to] holds t, character for character.
HasAt(s, from, t) ==
  /\ from >= 1
  /\ from + Len(t) - 1 <= Len(s)
  /\ \A i \in 1..Len(t) : s[from + i - 1] = t[i]

AllSpace(s, from, to) == \A i \in from..to : IsSpace(s[i])

AllDigits(s, from, to) == \A i \in from..to : IsDigit(s[i])

\* parseInt(digits, 10) of a non-empty run of decimal digits.
RECURSIVE ParseInt(_)
ParseInt(ds) ==
  IF Len(ds) = 0 THEN 0
  ELSE 10 * ParseInt(SubSeq(ds, 1, Len(ds) - 1)) + DigitValue(ds[Len(ds)])

(***************************************************************************)
(* Regular expressions of the reconciler                                   *)
(***************************************************************************)

LineToken == <<"/", "/", "l", "i", "n", "e">>

\* The number of \s characters l starts with, and the position of the last
\* character of l that is not \s (0 when there is none).
LeadingSpaces(l) ==
  CHOOSE a \in 0..Len(l) : AllSpace(l, 1, a) /\ (a = Len(l) \/ ~IsSpace(l[a + 1]))

LastNonSpace(l) ==
  CHOOSE e \in 0..Len(l) : AllSpace(l, e + 1, Len(l)) /\ (e = 0 \/ ~IsSpace(l[e]))

\* lineRe = /^\s*\/\/line\s+.+:(\d+)\s*$/ applied to one line: the digits
\* captured by group 1, or the empty sequence when the line does not match.
\* The leading \s* ends at a (the token starts with "/", so it takes every
\* leading space); the trailing \s* starts after e; the digits are the run
\* that ends at e and starts after c, where the ":" must be; \s+ is
\* l[a+7..b] and the greedy .+ (which never matches "\r") is l[b+1..c-1].
LineReExec(l) ==
  LET a == LeadingSpaces(l)
      e == LastNonSpace(l)
      c == CHOOSE k \in 0..e : AllDigits(l, k + 1, e) /\ (k = 0 \/ ~IsDigit(l[k]))
  IN  IF /\ HasAt(l, a + 1, LineToken)
         /\ c < e
         /\ c >= 1
         /\ l[c] = ":"
         /\ \E b \in (a + 7)..(c - 2) :
              /\ AllSpace(l, a + 7, b)
              /\ \A i \in (b + 1)..(c - 1) : l[i] # "\r"
      THEN SubSeq(l, c + 1, e)
      ELSE <<>>

DirectiveToken == <<"@", "i", "n", "c", "o", ":">>

\* re = /\/\/\s*@inco:\s+/ tested against one line (unanchored): "//" at
\* some position i, then every space that follows (the token starts with
\* "@"), then the token, then at least one space.
DirectiveReTest(l) ==
  \E i \in 1..Len(l) :
    /\ HasAt(l, i, <<"/", "/">>)
    /\ LET j == CHOOSE k \in (i + 2)..(Len(l) + 1) :
                  AllSpace(l, i + 2, k - 1) /\ (k = Len(l) + 1 \/ ~IsSpace(l[k]))
       IN  /\ HasAt(l, j, DirectiveToken)
           /\ j + 6 <= Len(l)
           /\ IsSpace(l[j + 6])

TooManyErrors == <<"t", "o", "o", " ", "m", "a", "n", "y", " ", "e", "r", "r", "o", "r", "s">>

\* The mutant of IsNoise that knows the package marker only.
IsNoiseHashOnly(message) == StartsWith(message, <<"#">>)

\* message.startsWith("too many errors") || message.startsWith("#")
IsNoise(message) == StartsWith(message, TooManyErrors) \/ StartsWith(message, <<"#">>)

(***************************************************************************)
(* Paths (POSIX)                                                           *)
(***************************************************************************)

IsAbsolute(p) == Len(p) >= 1 /\ p[1] = "/"

\* The segments of p between "/" characters, empty segments included.
RECURSIVE SplitFrom(_, _, _, _)
SplitFrom(p, i, cur, acc) ==
  IF i > Len(p) THEN Append(acc, cur)
  ELSE IF p[i] = "/" THEN SplitFrom(p, i + 1, <<>>, Append(acc, cur))
  ELSE SplitFrom(p, i + 1, Append(cur, p[i]), acc)

Segments(p) == SplitFrom(p, 1, <<>>, <<>>)

\* Normalisation of an absolute path's segments: "" and "." are dropped,
\* ".." removes the segment before it.
RECURSIVE NormalizeFrom(_, _, _)
NormalizeFrom(segs, i, acc) ==
  IF i > Len(segs) THEN acc
  ELSE IF segs[i] = <<>> \/ segs[i] = <<".">> THEN NormalizeFrom(segs, i + 1, acc)
  ELSE IF segs[i] = <<".", ".">>
       THEN NormalizeFrom(segs, i + 1,
                          IF Len(acc) = 0 THEN acc ELSE SubSeq(acc, 1, Len(acc) - 1))
  ELSE NormalizeFrom(segs, i + 1, Append(acc, segs[i]))

RECURSIVE JoinFrom(_, _)
JoinFrom(segs, i) ==
  IF i > Len(segs) THEN <<>> ELSE <<"/">> \o segs[i] \o JoinFrom(segs, i + 1)

\* path.resolve(base, rel) for an absolute base and a relative rel.
PathResolve(base, rel) ==
  LET segs == NormalizeFrom(Segments(base \o <<"/">> \o rel), 1, <<>>)
  IN  IF Len(segs) = 0 THEN <<"/">> ELSE JoinFrom(segs, 1)

(***************************************************************************)
(* The workspace: directories, files and their texts                       *)
(***************************************************************************)

\* getWorkspaceDir(): the first workspace folder.
WsDir == <<"/", "w">>

\* findGoModDir(WsDir): go.mod lives in the child directory m of the
\* workspace root (the mono-repo layout the function looks for).
GoModDir == <<"/", "w", "/", "m">>

PathA == <<"/", "w", "/", "m", "/", "a", ".", "i", "n", "c", "o", ".", "g", "o">>
PathB == <<"/", "w", "o", "/", "b", ".", "i", "n", "c", "o", ".", "g", "o">>
PathC == <<"/", "x", "/", "c", ".", "i", "n", "c", "o", ".", "g", "o">>
PathS == <<"/", "w", "/", "m", "/", "s", ".", "g", "o">>
PathT == <<"/", "w", "/", "m", "/", "t", ".", "g", "o">>

SuffixIncoGo == <<".", "i", "n", "c", "o", ".", "g", "o">>
SuffixInco == <<".", "i", "n", "c", "o">>

\* Lines a file can hold.
CodeLine == <<"x">>
DirectiveLine == <<"/", "/", " ", "@", "i", "n", "c", "o", ":", " ", "r">>
DirectiveLineTab == <<"\t", "/", "/", "@", "i", "n", "c", "o", ":", "\t", "r">>
NoDirectiveLine == <<"/", "/", " ", "@", "i", "n", "c", "o", ":", "r">>
MarkerLine3 == <<"/", "/", "l", "i", "n", "e", " ", "a", ".", "g", "o", ":", "3">>
MarkerLine1 == <<"\t", "/", "/", "l", "i", "n", "e", " ", " ", "a", ".", "g", "o", ":", "1", " ", "\r">>
MarkerLine0 == <<"/", "/", "l", "i", "n", "e", " ", "a", ".", "g", "o", ":", "0">>
MarkerLine12 == <<"/", "/", "l", "i", "n", "e", " ", "a", ".", "g", "o", ":", "1", "2">>
NoMarkerLine == <<"/", "/", "l", "i", "n", "e", " ", "a", ".", "g", "o">>
NoMarkerLineCode == <<"x", " ", "/", "/", "l", "i", "n", "e", " ", "a", ".", "g", "o", ":", "9">>

\* Number of lines of every file text.
MaxLines == 40

\* A line as the reconciler sees it: its characters with what the two
\* line expressions yield on them.
Line(chars) ==
  [chars |-> chars, lineRe |-> LineReExec(chars), directiveRe |-> DirectiveReTest(chars)]

\* A text of MaxLines lines: the lines of `special` (keyed by 0-based line
\* number) and plain code everywhere else.
RECURSIVE TextFrom(_, _)
TextFrom(special, i) ==
  IF i > MaxLines THEN <<>>
  ELSE <<Line(IF (i - 1) \in DOMAIN special THEN special[i - 1] ELSE CodeLine)>>
       \o TextFrom(special, i + 1)

Text(special) == TextFrom(special, 1)

\* What a path holds: a file that can be read, with its lines, or nothing
\* that can be read.
File(lines) == [readable |-> TRUE, lines |-> lines]

NoFile == [readable |-> FALSE, lines |-> <<>>]

\* The contents files are drawn from.
Texts ==
  [ A1 |-> File(Text(1 :> NoDirectiveLine @@ 2 :> DirectiveLine @@ 4 :> DirectiveLineTab)),
    A2 |-> File(Text(3 :> DirectiveLine)),
    B1 |-> File(Text(2 :> DirectiveLine)),
    S1 |-> File(Text(0 :> NoMarkerLine @@ 1 :> NoMarkerLineCode @@ 2 :> MarkerLine12
                     @@ 3 :> MarkerLine1)),
    S2 |-> File(Text(34 :> MarkerLine0)),
    T1 |-> File(Text(0 :> MarkerLine3)) ]

FilePaths == {PathA, PathB, PathC, PathS, PathT}

\* fs.readFileSync(p, "utf-8").split("\n"): the read throws unless the path
\* is Readable; otherwise it yields the lines of the file.
Readable(fs, p) == p \in DOMAIN fs /\ fs[p].readable

ReadLines(fs, p) == fs[p].lines

(***************************************************************************)
(* The substitution table (overlay.json) and its reverse index             *)
(***************************************************************************)

\* overlay.json is absent, is not valid JSON, or holds the Replace table as
\* the sequence of its <<source, shadow>> entries in Object.entries order.
OverlayAbsent == [state |-> "absent", Replace |-> <<>>]
OverlayInvalid == [state |-> "invalid", Replace |-> <<>>]
OverlayTable(entries) == [state |-> "table", Replace |-> entries]

EmptyMap == [x \in {} |-> x]

\* m.set(k, v) on a Map modelled as a function.
MapSet(m, k, v) == [x \in (DOMAIN m) \cup {k} |-> IF x = k THEN v ELSE m[x]]

RECURSIVE ReverseFrom(_, _, _)
ReverseFrom(entries, i, result) ==
  IF i > Len(entries) THEN result
  ELSE ReverseFrom(entries, i + 1, MapSet(result, entries[i][2], entries[i][1]))

\* buildReverseOverlay: shadow path -> source path; empty when the file
\* cannot be read or parsed.
buildReverseOverlay(ov) ==
  IF ov.state # "table" THEN EmptyMap
  ELSE ReverseFrom(ov.Replace, 1, EmptyMap)

(***************************************************************************)
(* mapShadowLineToSource                                                   *)
(***************************************************************************)

\* The mutant of ScanBackForMarker that leaves out the "- 1" of the offset.
RECURSIVE ScanBackForMarkerOffByOne(_, _, _)
ScanBackForMarkerOffByOne(lines, shadowLine, i) ==
  IF i < 0 THEN NotFound
  ELSE LET m == IF i + 1 > Len(lines) THEN <<>> ELSE lines[i + 1].lineRe
       IN  IF m # <<>>
           THEN (ParseInt(m) - 1) + (shadowLine - i)
           ELSE ScanBackForMarkerOffByOne(lines, shadowLine, i - 1)

\* The mutant of ScanBackForMarker that answers the raw line when no marker
\* precedes it.
RECURSIVE ScanBackForMarkerRaw(_, _, _)
ScanBackForMarkerRaw(lines, shadowLine, i) ==
  IF i < 0 THEN shadowLine
  ELSE LET m == IF i + 1 > Len(lines) THEN <<>> ELSE lines[i + 1].lineRe
       IN  IF m # <<>>
           THEN (ParseInt(m) - 1) + (shadowLine - i - 1)
           ELSE ScanBackForMarkerRaw(lines, shadowLine, i - 1)

\* The backward loop `for (let i = shadowLine; i >= 0; i--)`; lines[i] is
\* undefined past the end of the file, which the expression does not match.
RECURSIVE ScanBackForMarker(_, _, _)
ScanBackForMarker(lines, shadowLine, i) ==
  IF i < 0 THEN NotFound
  ELSE LET m == IF i + 1 > Len(lines) THEN <<>> ELSE lines[i + 1].lineRe
       IN  IF m # <<>>
           THEN LET declaredLine == ParseInt(m) - 1
                    offset == shadowLine - i - 1
                IN  declaredLine + offset
           ELSE ScanBackForMarker(lines, shadowLine, i - 1)

mapShadowLineToSource(fs, shadowPath, shadowLine) ==
  IF ~Readable(fs, shadowPath) THEN NotFound
  ELSE ScanBackForMarker(ReadLines(fs, shadowPath), shadowLine, shadowLine)

(***************************************************************************)
(* snapToDirectiveLine and the directive-line cache                        *)
(***************************************************************************)

\* The mutant of ScanDirectives that puts each new line number in front.
RECURSIVE ScanDirectivesUnshift(_, _, _)
ScanDirectivesUnshift(lines, i, directiveLines) ==
  IF i >= Len(lines) THEN directiveLines
  ELSE ScanDirectivesUnshift(lines, i + 1,
                             IF lines[i + 1].directiveRe
                             THEN <<i>> \o directiveLines ELSE directiveLines)

\* The scan `for (let i = 0; i < lines.length; i++) if (re.test(lines[i]))
\* directiveLines.push(i)`.
RECURSIVE ScanDirectives(_, _, _)
ScanDirectives(lines, i, directiveLines) ==
  IF i >= Len(lines) THEN directiveLines
  ELSE ScanDirectives(lines, i + 1,
                      IF lines[i + 1].directiveRe
                      THEN Append(directiveLines, i) ELSE directiveLines)

\* The mutant of NearestAtOrBefore that stops at the first entry <= errorLine.
NearestAtOrBeforeFirst(directiveLines, errorLine, k, nearest) ==
  IF \E j \in k..Len(directiveLines) : directiveLines[j] <= errorLine
  THEN directiveLines[CHOOSE j \in k..Len(directiveLines) :
                        /\ directiveLines[j] <= errorLine
                        /\ \A h \in k..(j - 1) : directiveLines[h] > errorLine]
  ELSE nearest

\* The loop that keeps the last entry <= errorLine and breaks at the first
\* greater one.
RECURSIVE NearestAtOrBefore(_, _, _, _)
NearestAtOrBefore(directiveLines, errorLine, k, nearest) ==
  IF k > Len(directiveLines) THEN nearest
  ELSE IF directiveLines[k] <= errorLine
       THEN NearestAtOrBefore(directiveLines, errorLine, k + 1, directiveLines[k])
       ELSE nearest

\* The mutant of SnapInIndex that compares the distance with < instead of <=.
SnapInIndexStrict(directiveLines, errorLine) ==
  IF Len(directiveLines) = 0 THEN NotFound
  ELSE IF \E k \in 1..Len(directiveLines) : directiveLines[k] = errorLine THEN errorLine
  ELSE LET nearest == NearestAtOrBefore(directiveLines, errorLine, 1, -1)
       IN  IF nearest = -1 THEN NotFound
           ELSE IF errorLine - nearest < MaxSnapDistance THEN nearest
           ELSE NotFound

\* The mutant of SnapInIndex that snaps however far the directive is.
SnapInIndexNoLimit(directiveLines, errorLine) ==
  IF Len(directiveLines) = 0 THEN NotFound
  ELSE IF \E k \in 1..Len(directiveLines) : directiveLines[k] = errorLine THEN errorLine
  ELSE NearestAtOrBefore(directiveLines, errorLine, 1, -1)

\* The part of snapToDirectiveLine after the index is known.
SnapInIndex(directiveLines, errorLine) ==
  IF Len(directiveLines) = 0 THEN NotFound
  ELSE IF \E k \in 1..Len(directiveLines) : directiveLines[k] = errorLine THEN errorLine
  ELSE LET nearest == NearestAtOrBefore(directiveLines, errorLine, 1, -1)
       IN  IF nearest = -1 THEN NotFound
           ELSE IF errorLine - nearest <= MaxSnapDistance THEN nearest
           ELSE NotFound

\* The mutant of snapToDirectiveLine that searches a cached index as if its
\* entries were 1-based.
snapToDirectiveLineShifted(fs, cache, filePath, errorLine) ==
  IF filePath \in DOMAIN cache
  THEN [ret |-> SnapInIndex(cache[filePath], errorLine + 1), cache |-> cache]
  ELSE IF ~Readable(fs, filePath)
  THEN [ret |-> NotFound, cache |-> cache]
  ELSE LET directiveLines == ScanDirectives(ReadLines(fs, filePath), 0, <<>>)
       IN  [ret |-> SnapInIndex(directiveLines, errorLine),
            cache |-> MapSet(cache, filePath, directiveLines)]

\* snapToDirectiveLine(filePath, errorLine) with the cache it reads and
\* writes: the returned line and the cache after the call.
snapToDirectiveLine(fs, cache, filePath, errorLine) ==
  IF filePath \in DOMAIN cache
  THEN [ret |-> SnapInIndex(cache[filePath], errorLine), cache |-> cache]
  ELSE IF ~Readable(fs, filePath)
  THEN [ret |-> NotFound, cache |-> cache]
  ELSE LET directiveLines == ScanDirectives(ReadLines(fs, filePath), 0, <<>>)
       IN  [ret |-> SnapInIndex(directiveLines, errorLine),
            cache |-> MapSet(cache, filePath, directiveLines)]

(***************************************************************************)
(* parseGoErrors                                                           *)
(***************************************************************************)

\* One match of errorRe = /^(.+?\.go):(\d+)(?::(\d+))?: (.+)$/gm in the
\* compiler output: [file |-> m[1], line |-> parseInt(m[2], 10), msg |-> m[4]].

\* absFile: the reported path made absolute against the go.mod directory.
AbsFile(rawFile) ==
  IF IsAbsolute(rawFile) THEN rawFile ELSE PathResolve(GoModDir, rawFile)

IsSourcePath(absFile) == EndsWith(absFile, SuffixIncoGo) \/ EndsWith(absFile, SuffixInco)

\* Case A of the loop body: the error points at the source file itself.
ResolveSource(fs, cache, absFile, errorLine) ==
  LET snap == snapToDirectiveLine(fs, cache, absFile, errorLine)
  IN  [kase |-> "A", sourceFile |-> absFile,
       sourceLine |-> IF snap.ret # -1 THEN snap.ret ELSE errorLine,
       mapped |-> NotFound, snapped |-> TRUE, snapLine |-> errorLine,
       snapRet |-> snap.ret, cache |-> snap.cache]

\* Case B of the loop body: the error points at a shadow file.
ResolveShadow(fs, reverseOverlay, cache, absFile, errorLine) ==
  LET sourceFile == reverseOverlay[absFile]
      mapped == mapShadowLineToSource(fs, absFile, errorLine)
  IN  IF mapped # -1
      THEN LET snap == snapToDirectiveLine(fs, cache, sourceFile, mapped)
           IN  [kase |-> "B", sourceFile |-> sourceFile,
                sourceLine |-> IF snap.ret # -1 THEN snap.ret ELSE mapped,
                mapped |-> mapped, snapped |-> TRUE, snapLine |-> mapped,
                snapRet |-> snap.ret, cache |-> snap.cache]
      ELSE [kase |-> "B", sourceFile |-> sourceFile, sourceLine |-> errorLine,
            mapped |-> mapped, snapped |-> FALSE, snapLine |-> NotFound,
            snapRet |-> NotFound, cache |-> cache]

\* The mutant of ResolveDiagnostic that keeps an error of a file that is
\* neither a source file nor a shadow file, at its raw line.
ResolveDiagnosticKeepOther(fs, reverseOverlay, cache, absFile, errorLine) ==
  IF IsSourcePath(absFile) THEN ResolveSource(fs, cache, absFile, errorLine)
  ELSE IF absFile \in DOMAIN reverseOverlay
  THEN ResolveShadow(fs, reverseOverlay, cache, absFile, errorLine)
  ELSE [kase |-> "A", sourceFile |-> absFile, sourceLine |-> errorLine,
        mapped |-> NotFound, snapped |-> FALSE, snapLine |-> NotFound,
        snapRet |-> NotFound, cache |-> cache]

\* The three-way branch of the loop body that yields sourceFile and
\* sourceLine (kase "C" is the `continue` of the last branch), with the
\* values it computed on the way and the cache after it.
ResolveDiagnostic(fs, reverseOverlay, cache, absFile, errorLine) ==
  IF IsSourcePath(absFile) THEN ResolveSource(fs, cache, absFile, errorLine)
  ELSE IF absFile \in DOMAIN reverseOverlay
  THEN ResolveShadow(fs, reverseOverlay, cache, absFile, errorLine)
  ELSE [kase |-> "C", sourceFile |-> <<>>, sourceLine |-> NotFound,
        mapped |-> NotFound, snapped |-> FALSE, snapLine |-> NotFound,
        snapRet |-> NotFound, cache |-> cache]

\* `if (!sourceFile.startsWith(wsDir)) continue`
InWorkspace(sourceFile) == StartsWith(sourceFile, WsDir)

\* The mutant of IsDuplicate that finds no duplicate.
IsDuplicateNever(existing, sourceLine, message) == FALSE

\* `existing.some(d => d.range.start.line === sourceLine && d.message === message)`
IsDuplicate(existing, sourceLine, message) ==
  \E k \in 1..Len(existing) :
    existing[k].line = sourceLine /\ existing[k].message = message

\* One iteration of the while loop over the matches.  st holds the cache,
\* the result map, whether an exception left the loop, and a record of
\* what each iteration computed.  new vscode.Range(line, ...) throws for a
\* negative line.
ParseStep(fs, reverseOverlay, st, entry) ==
  LET errorLine == entry.line - 1
      message == entry.msg
  IN  IF IsNoise(message)
      THEN [st EXCEPT !.steps =
              Append(@, [entry |-> entry, absFile |-> <<>>, errorLine |-> errorLine,
                         kase |-> "noise", sourceFile |-> <<>>, sourceLine |-> NotFound,
                         mapped |-> NotFound, snapped |-> FALSE, snapLine |-> NotFound,
                         snapRet |-> NotFound, outcome |-> "noise", index |-> <<>>])]
      ELSE
  LET absFile == AbsFile(entry.file)
      r == ResolveDiagnostic(fs, reverseOverlay, st.cache, absFile, errorLine)
      existing == IF r.sourceFile \in DOMAIN st.result THEN st.result[r.sourceFile] ELSE <<>>
      outcome ==
        IF r.kase = "C" THEN "other"
        ELSE IF ~InWorkspace(r.sourceFile) THEN "outside"
        ELSE IF r.sourceLine < 0 THEN "threw"
        ELSE IF IsDuplicate(existing, r.sourceLine, message) THEN "dup"
        ELSE "pushed"
  IN  [cache |-> r.cache,
       result |-> IF outcome = "pushed"
                  THEN MapSet(st.result, r.sourceFile,
                              Append(existing, [line |-> r.sourceLine, message |-> message]))
                  ELSE st.result,
       threw |-> (outcome = "threw"),
       steps |-> Append(st.steps,
                   [entry |-> entry, absFile |-> absFile, errorLine |-> errorLine,
                    kase |-> r.kase, sourceFile |-> r.sourceFile,
                    sourceLine |-> r.sourceLine, mapped |-> r.mapped,
                    snapped |-> r.snapped, snapLine |-> r.snapLine,
                    snapRet |-> r.snapRet, outcome |-> outcome,
                    index |-> IF r.snapped /\ r.sourceFile \in DOMAIN r.cache
                              THEN r.cache[r.sourceFile] ELSE <<>>])]

RECURSIVE ParseFrom(_, _, _, _, _)
ParseFrom(fs, reverseOverlay, output, i, st) ==
  IF i > Len(output) \/ st.threw THEN st
  ELSE ParseFrom(fs, reverseOverlay, output, i + 1,
                 ParseStep(fs, reverseOverlay, st, output[i]))

\* parseGoErrors(output, wsDir): the returned map (result), whether the call
\* threw instead of returning, and the directive-line cache after the call.
parseGoErrors(fs, ov, cache, output) ==
  ParseFrom(fs, buildReverseOverlay(ov), output, 1,
            [cache |-> cache, result |-> EmptyMap, threw |-> FALSE, steps |-> <<>>])

(***************************************************************************)
(* Inputs: compiler outputs, file states, overlays                         *)
(***************************************************************************)

RawA == <<"a", ".", "i", "n", "c", "o", ".", "g", "o">>
RawB == <<".", ".", "/", ".", ".", "/", "w", "o", "/", "b", ".", "i", "n", "c", "o", ".", "g", "o">>
RawMain == <<"m", "a", "i", "n", ".", "g", "o">>

Msg1 == <<"e", "1">>
Msg2 == <<"e", "2">>
MsgPackage == <<"#", " ", "m">>

\* 1-based line numbers the compiler reports against original files and
\* against shadow files.
SourceReportedLines == {0, 3, 4, 35, 36}
ShadowReportedLines == {2, 3, 4, 35}

Entry(f, n, m) == [file |-> f, line |-> n, msg |-> m]

RawEntries ==
  { Entry(RawA, n, Msg1) : n \in SourceReportedLines }
  \cup { Entry(PathS, n, Msg1) : n \in ShadowReportedLines }
  \cup { Entry(RawB, 4, Msg1), Entry(PathC, 4, Msg1), Entry(PathT, 45, Msg1),
         Entry(RawMain, 4, Msg1), Entry(RawA, 4, Msg2),
         Entry(RawA, 4, MsgPackage), Entry(PathS, 4, TooManyErrors) }

\* Compiler outputs: the sequences of at most MaxOutput matched lines.
Outputs == UNION { [1..n -> RawEntries] : n \in 0..MaxOutput }

FileState(a, s) ==
  (PathA :> a) @@ (PathS :> s) @@ (PathB :> Texts.B1) @@ (PathC :> Texts.B1)
  @@ (PathT :> Texts.T1)

\* Every state of the source file beside the first shadow text, and every
\* state of the shadow file beside the first source text.
FileStates ==
  { FileState(a, Texts.S1) : a \in {Texts.A1, Texts.A2, NoFile} }
  \cup { FileState(Texts.A1, s) : s \in {Texts.S1, Texts.S2, NoFile} }

Overlays ==
  { OverlayAbsent, OverlayInvalid,
    OverlayTable(<< <<PathA, PathS>> >>),
    OverlayTable(<< <<PathA, PathS>>, <<PathB, PathT>> >>),
    OverlayTable(<< <<PathA, PathS>>, <<PathC, PathS>> >>) }

(***************************************************************************)
(* State                                                                   *)
(***************************************************************************)

VARIABLES
  files,               \* path -> the file the path holds, or NoFile
  overlay,             \* .inco_cache/overlay.json
  directiveLineCache,  \* _directiveLineCache: path -> directive lines
  buildDiagnostics,    \* the inco-build collection: path -> diagnostics
  inFlight,            \* checkBuildErrors calls awaiting runGoCheck
  batches,             \* checkBuildErrors calls made so far
  lastParse,           \* what the latest parseGoErrors call got and computed
  indexSinceClear,     \* path -> the directive indexes its contents have had
                       \* since _directiveLineCache was last cleared
  activated,           \* activate() has run: watcher and commands exist
  buildCheckTimer,     \* the debounce timer of the overlay watcher is pending
  watchProcess,        \* watchProcess: the pid of the child, or NoProcess
  intentionallyStopped,\* _intentionallyStopped
  procs,               \* pid -> what has become of the `inco watch` child
  restartTimers,       \* pending 3 s auto-restart timers
  pausedCalls,         \* the withWatchPaused calls and where each one is
  stopRequested,       \* inco.watchStop or dispose came last of the watch
                       \* commands (no inco.watchStart / watchRestart since)
  pending,             \* the numbers of the batches awaiting their compiler
  batchResult,         \* batch number -> whether it completed, and its result
  overlapped,          \* a batch has started while another awaited its compiler
  enabled,             \* IncoDirectiveDiagnostics.enabled
  openDocs,            \* the documents that are open in the editor
  diagnosticCollection,\* the inco collection: document -> diagnostics
  debounceTimers,      \* the keys of IncoDirectiveDiagnostics.debounceTimers
  timeouts,            \* document -> the remaining ticks of each timeout set
                       \* for it by scheduleDiagnose and neither cleared nor run
  diagnoseRuns,        \* document -> `inco diagnose` runs awaiting their output
  sinceEvent,          \* document -> ticks since its last scheduling event
  unserved             \* document -> whether no, one or several scheduling
                       \* events came since its last runDiagnose began

reconcileVars ==
  <<files, overlay, directiveLineCache, buildDiagnostics, inFlight, batches, lastParse,
    indexSinceClear>>

callerVars == <<activated, buildCheckTimer>>

watchVars ==
  <<watchProcess, intentionallyStopped, procs, restartTimers, pausedCalls, stopRequested>>

orderVars == <<pending, batchResult, overlapped>>

diagVars ==
  <<enabled, openDocs, diagnosticCollection, debounceTimers, timeouts, diagnoseRuns,
    sinceEvent, unserved>>

vars == <<reconcileVars, callerVars, watchVars, orderVars, diagVars>>

\* The directive index a scan of the file yields, if the file can be read.
IndexesOf(file) ==
  IF file.readable THEN {ScanDirectives(file.lines, 0, <<>>)} ELSE {}

NoParse == [ran |-> FALSE, output |-> <<>>, cacheBefore |-> EmptyMap,
            result |-> EmptyMap, threw |-> FALSE, steps |-> <<>>]

\* Largest number of checkBuildErrors calls in one behaviour of Spec.
MaxBatches == 2

\* No batch has started.
InitOrder ==
  /\ pending = {}
  /\ batchResult = [b \in 1..MaxBatches |-> [done |-> FALSE, result |-> EmptyMap]]
  /\ overlapped = FALSE

(***************************************************************************)
(* The `inco watch` child process                                          *)
(***************************************************************************)

\* Largest number of `inco watch` processes spawned in one behaviour.
MaxSpawns == 3

\* Largest number of withWatchPaused calls in one behaviour.
MaxPausedCalls == 2

\* watchProcess === undefined.
NoProcess == 0

\* The module-level state startWatch and stopWatch work on, with the child
\* processes they act upon.
WatchState ==
  [watchProcess |-> watchProcess, intentionallyStopped |-> intentionallyStopped,
   procs |-> procs]

SetWatchState(w) ==
  /\ watchProcess' = w.watchProcess
  /\ intentionallyStopped' = w.intentionallyStopped
  /\ procs' = w.procs

\* The pids cp.spawn has not handed out yet.
FreePids(w) == { pid \in DOMAIN w.procs : w.procs[pid] = "none" }

\* startWatch can run to its end: it returns early, or a pid is left.
CanStartWatch(w) == w.watchProcess # NoProcess \/ FreePids(w) # {}

\* startWatch: returns at once when watchProcess is set; otherwise resets
\* _intentionallyStopped and spawns `inco watch .`.
startWatch(w) ==
  IF w.watchProcess # NoProcess
  THEN w
  ELSE LET pid == CHOOSE q \in FreePids(w) : \A r \in FreePids(w) : q <= r
       IN  [w EXCEPT !.intentionallyStopped = FALSE,
                     !.watchProcess = pid,
                     !.procs[pid] = "running"]

\* stopWatch: sets _intentionallyStopped, and when watchProcess is set sends
\* SIGTERM to its process group and forgets it.  A process that has already
\* exited is not affected by the signal.
stopWatch(w) ==
  IF w.watchProcess # NoProcess
  THEN [w EXCEPT !.intentionallyStopped = TRUE,
                 !.procs[w.watchProcess] = IF @ = "running" THEN "killed" ELSE @,
                 !.watchProcess = NoProcess]
  ELSE [w EXCEPT !.intentionallyStopped = TRUE]

\* isWatchRunning.
isWatchRunning == watchProcess # NoProcess

InitWatch ==
  /\ watchProcess = NoProcess
  /\ intentionallyStopped = FALSE
  /\ procs = [pid \in 1..MaxSpawns |-> "none"]
  /\ restartTimers = 0
  /\ pausedCalls = [i \in 1..MaxPausedCalls |-> [pc |-> "idle", wasRunning |-> FALSE]]
  /\ stopRequested = FALSE

\* The command inco.watchStart.
WatchStart ==
  /\ CanStartWatch(WatchState)
  /\ SetWatchState(startWatch([WatchState EXCEPT !.intentionallyStopped = FALSE]))
  /\ stopRequested' = FALSE
  /\ UNCHANGED <<restartTimers, pausedCalls>>

\* The command inco.watchStop, and the dispose that activate() registers:
\* both call stopWatch().
WatchStop ==
  /\ SetWatchState(stopWatch(WatchState))
  /\ stopRequested' = TRUE
  /\ UNCHANGED <<restartTimers, pausedCalls>>

\* The command inco.watchRestart.
WatchRestart ==
  /\ FreePids(WatchState) # {}
  /\ SetWatchState(startWatch([stopWatch(WatchState) EXCEPT !.intentionallyStopped = FALSE]))
  /\ stopRequested' = FALSE
  /\ UNCHANGED <<restartTimers, pausedCalls>>

\* A running `inco watch` exits on its own with a non-zero code.
ProcessCrash(pid) ==
  /\ procs[pid] = "running"
  /\ procs' = [procs EXCEPT ![pid] = "crashed"]
  /\ UNCHANGED <<watchProcess, intentionallyStopped, restartTimers, pausedCalls, stopRequested>>

\* The "close" handler startWatch installed on process pid: it forgets
\* whatever watchProcess holds, and after a crash that was not an intended
\* stop it sets the 3 s restart timer.  A process ended by SIGTERM closes
\* with code null.
OnClose(pid) ==
  /\ procs[pid] \in {"killed", "crashed"}
  /\ procs' = [procs EXCEPT ![pid] = "closed"]
  /\ watchProcess' = NoProcess
  /\ restartTimers' = IF ~intentionallyStopped /\ procs[pid] = "crashed"
                      THEN restartTimers + 1
                      ELSE restartTimers
  /\ UNCHANGED <<intentionallyStopped, pausedCalls, stopRequested>>

\* A 3 s restart timer fires.
RestartTimerFires ==
  /\ restartTimers > 0
  /\ restartTimers' = restartTimers - 1
  /\ IF watchProcess = NoProcess /\ ~intentionallyStopped
     THEN /\ FreePids(WatchState) # {}
          /\ SetWatchState(startWatch(WatchState))
     ELSE UNCHANGED <<watchProcess, intentionallyStopped, procs>>
  /\ UNCHANGED <<pausedCalls, stopRequested>>

\* withWatchPaused up to its first await: a running watch is stopped and the
\* 300 ms sleep begins; otherwise fn is called at once.  Calls are numbered
\* in the order in which they begin.
WithWatchPausedBegin(i) ==
  /\ pausedCalls[i].pc = "idle"
  /\ \A j \in 1..(i - 1) : pausedCalls[j].pc # "idle"
  /\ pausedCalls' = [pausedCalls EXCEPT
                       ![i] = [pc |-> IF isWatchRunning THEN "sleep" ELSE "fn",
                               wasRunning |-> isWatchRunning]]
  /\ SetWatchState(IF isWatchRunning THEN stopWatch(WatchState) ELSE WatchState)
  /\ UNCHANGED <<restartTimers, stopRequested>>

\* The 300 ms sleep of withWatchPaused ends and fn is called.
WithWatchPausedCallFn(i) ==
  /\ pausedCalls[i].pc = "sleep"
  /\ pausedCalls' = [pausedCalls EXCEPT ![i].pc = "fn"]
  /\ UNCHANGED <<watchProcess, intentionallyStopped, procs, restartTimers, stopRequested>>

\* The mutant of WithWatchPausedFinally whose finally block restarts nothing.
WithWatchPausedFinallyNoRestart(i) ==
  /\ pausedCalls[i].pc = "fn"
  /\ \E settled \in {"resolved", "rejected"} :
       pausedCalls' = [pausedCalls EXCEPT ![i].pc = settled]
  /\ UNCHANGED <<watchProcess, intentionallyStopped, procs, restartTimers, stopRequested>>

\* fn resolves or rejects and the finally block of withWatchPaused runs
\* (incoChannel is set by registerCommands before any command can run).
WithWatchPausedFinally(i) ==
  /\ pausedCalls[i].pc = "fn"
  /\ \E settled \in {"resolved", "rejected"} :
       pausedCalls' = [pausedCalls EXCEPT ![i].pc = settled]
  /\ IF pausedCalls[i].wasRunning
     THEN /\ CanStartWatch(WatchState)
          /\ SetWatchState(startWatch([WatchState EXCEPT !.intentionallyStopped = FALSE]))
     ELSE UNCHANGED <<watchProcess, intentionallyStopped, procs>>
  /\ UNCHANGED <<restartTimers, stopRequested>>

(***************************************************************************)
(* IncoDirectiveDiagnostics: debounced `inco diagnose` per document        *)
(***************************************************************************)

\* DEBOUNCE_MS = 300, in ticks of 100 ms.
DebounceTicks == 3

\* Largest number of `inco diagnose` runs of one document awaiting output.
MaxDiagnoseRuns == 1

FmtPrefix == <<".", "i", "n", "c", "o", "-", "f", "m", "t", "-">>

DocFmt ==
  <<"/", "w", "/", "m", "/", ".", "i", "n", "c", "o", "-", "f", "m", "t", "-", "1",
    ".", "i", "n", "c", "o", ".", "g", "o">>

\* The documents the editor opens, saves and closes.
Docs == {PathA, PathB, DocFmt}

\* path.basename(name).
Basename(name) == Segments(name)[Len(Segments(name))]

\* isIncoFile(doc).
isIncoFile(name) ==
  IF StartsWith(Basename(name), FmtPrefix)
  THEN FALSE
  ELSE EndsWith(name, SuffixIncoGo) \/ EndsWith(name, SuffixInco)

\* What parseDiagnostics makes of the output of `inco diagnose`.
DiagnoseResults == { <<>>, <<"d1">> }

AllButLast(seq) == SubSeq(seq, 1, Len(seq) - 1)

RemoveAt(seq, k) == SubSeq(seq, 1, k - 1) \o SubSeq(seq, k + 1, Len(seq))

InitDiagnose ==
  /\ enabled = TRUE
  /\ openDocs = {}
  /\ diagnosticCollection = EmptyMap
  /\ debounceTimers = {}
  /\ timeouts = [d \in Docs |-> <<>>]
  /\ diagnoseRuns = [d \in Docs |-> 0]
  /\ sinceEvent = [d \in Docs |-> DebounceTicks]
  /\ unserved = [d \in Docs |-> "none"]

\* The mutant of scheduleDiagnose that clears no timeout.
scheduleDiagnoseNoClear(doc) ==
  IF ~isIncoFile(doc)
  THEN UNCHANGED <<debounceTimers, timeouts, sinceEvent, unserved>>
  ELSE /\ timeouts' = [timeouts EXCEPT ![doc] = Append(@, DebounceTicks)]
       /\ debounceTimers' = debounceTimers \cup {doc}
       /\ sinceEvent' = [sinceEvent EXCEPT ![doc] = 0]
       /\ unserved' = [unserved EXCEPT ![doc] = IF @ = "none" THEN "one" ELSE "several"]

\* scheduleDiagnose(doc): nothing for a file that is not an inco file;
\* otherwise the timeout the map holds for the document is cleared and a new
\* one of DEBOUNCE_MS is set and stored.  A key of the map always holds the
\* timeout set last for the document.
scheduleDiagnose(doc) ==
  IF ~isIncoFile(doc)
  THEN UNCHANGED <<debounceTimers, timeouts, sinceEvent, unserved>>
  ELSE /\ timeouts' = [timeouts EXCEPT ![doc] =
                         Append(IF doc \in debounceTimers THEN AllButLast(@) ELSE @,
                                DebounceTicks)]
       /\ debounceTimers' = debounceTimers \cup {doc}
       /\ sinceEvent' = [sinceEvent EXCEPT ![doc] = 0]
       /\ unserved' = [unserved EXCEPT ![doc] = IF @ = "none" THEN "one" ELSE "several"]

\* onDidOpenTextDocument.
OnDidOpen(doc) ==
  /\ doc \notin openDocs
  /\ openDocs' = openDocs \cup {doc}
  /\ IF enabled
     THEN scheduleDiagnose(doc)
     ELSE UNCHANGED <<debounceTimers, timeouts, sinceEvent, unserved>>
  /\ UNCHANGED <<enabled, diagnosticCollection, diagnoseRuns>>

\* onDidSaveTextDocument.
OnDidSave(doc) ==
  /\ doc \in openDocs
  /\ IF enabled
     THEN scheduleDiagnose(doc)
     ELSE UNCHANGED <<debounceTimers, timeouts, sinceEvent, unserved>>
  /\ UNCHANGED <<enabled, openDocs, diagnosticCollection, diagnoseRuns>>

\* onDidCloseTextDocument: diagnosticCollection.delete(doc.uri).
OnDidClose(doc) ==
  /\ doc \in openDocs
  /\ openDocs' = openDocs \ {doc}
  /\ diagnosticCollection' =
       [d \in DOMAIN diagnosticCollection \ {doc} |-> diagnosticCollection[d]]
  /\ UNCHANGED <<enabled, debounceTimers, timeouts, diagnoseRuns, sinceEvent, unserved>>

\* onDidChangeConfiguration for inco.diagnostics.enabled.
OnDidChangeConfiguration(value) ==
  /\ enabled # value
  /\ enabled' = value
  /\ diagnosticCollection' = IF ~value THEN EmptyMap ELSE diagnosticCollection
  /\ UNCHANGED <<openDocs, debounceTimers, timeouts, diagnoseRuns, sinceEvent, unserved>>

\* A timeout of the document has run down and its callback runs: the key is
\* deleted and runDiagnose spawns `inco diagnose` (the document is in a
\* workspace folder).
DebounceFires(doc) ==
  /\ diagnoseRuns[doc] < MaxDiagnoseRuns
  /\ \E k \in 1..Len(timeouts[doc]) :
       /\ timeouts[doc][k] = 0
       /\ timeouts' = [timeouts EXCEPT ![doc] = RemoveAt(@, k)]
  /\ debounceTimers' = debounceTimers \ {doc}
  /\ diagnoseRuns' = [diagnoseRuns EXCEPT ![doc] = @ + 1]
  /\ unserved' = [unserved EXCEPT ![doc] = "none"]
  /\ UNCHANGED <<enabled, openDocs, diagnosticCollection, sinceEvent>>

\* `inco diagnose` closes: runDiagnose parses the output and sets the
\* document's diagnostics.
DiagnoseDone(doc, diags) ==
  /\ diagnoseRuns[doc] > 0
  /\ diagnoseRuns' = [diagnoseRuns EXCEPT ![doc] = @ - 1]
  /\ diagnosticCollection' = MapSet(diagnosticCollection, doc, diags)
  /\ UNCHANGED <<enabled, openDocs, debounceTimers, timeouts, sinceEvent, unserved>>

\* `inco diagnose` cannot be spawned: execDiagnose rejects and runDiagnose
\* logs the error.
DiagnoseFails(doc) ==
  /\ diagnoseRuns[doc] > 0
  /\ diagnoseRuns' = [diagnoseRuns EXCEPT ![doc] = @ - 1]
  /\ UNCHANGED <<enabled, openDocs, diagnosticCollection, debounceTimers, timeouts,
                 sinceEvent, unserved>>

\* 100 ms pass.  A timeout that has run down runs before more time passes.
Tick ==
  /\ \E d \in Docs : timeouts[d] # <<>>
  /\ \A d \in Docs : \A k \in 1..Len(timeouts[d]) : timeouts[d][k] > 0
  /\ timeouts' = [d \in Docs |-> [k \in 1..Len(timeouts[d]) |-> timeouts[d][k] - 1]]
  /\ sinceEvent' = [d \in Docs |->
                      IF sinceEvent[d] < DebounceTicks THEN sinceEvent[d] + 1
                      ELSE sinceEvent[d]]
  /\ UNCHANGED <<enabled, openDocs, diagnosticCollection, debounceTimers, diagnoseRuns,
                 unserved>>

(***************************************************************************)
(* checkBuildErrors                                                        *)
(***************************************************************************)

\* checkBuildErrors when overlay.json does not exist: the collection is
\* cleared and the call returns.
CheckBuildNoOverlay ==
  /\ overlay.state = "absent"
  /\ buildDiagnostics' = EmptyMap
  /\ batches' = batches + 1
  /\ UNCHANGED <<files, overlay, directiveLineCache, inFlight, lastParse, indexSinceClear>>

\* The mutant of CheckBuildStart that leaves the cache as it is.
CheckBuildStartKeepCache ==
  /\ overlay.state # "absent"
  /\ indexSinceClear' = [p \in FilePaths |-> IndexesOf(files[p])]
  /\ inFlight' = inFlight + 1
  /\ batches' = batches + 1
  /\ UNCHANGED <<files, overlay, directiveLineCache, buildDiagnostics, lastParse>>

\* checkBuildErrors up to its await: the cache is cleared and go build is
\* spawned.
CheckBuildStart ==
  /\ overlay.state # "absent"
  /\ directiveLineCache' = EmptyMap
  /\ indexSinceClear' = [p \in FilePaths |-> IndexesOf(files[p])]
  /\ inFlight' = inFlight + 1
  /\ batches' = batches + 1
  /\ UNCHANGED <<files, overlay, buildDiagnostics, lastParse>>

\* checkBuildErrors from its call to its first await or return.
checkBuildErrors == CheckBuildNoOverlay \/ CheckBuildStart

\* The rest of checkBuildErrors, run when go build closes with `output`:
\* the output is parsed and the collection is cleared and refilled; an
\* exception thrown while parsing is caught and logged, and the collection
\* is left as it was.
GoCheckDone(output) ==
  /\ inFlight > 0
  /\ \E p \in {parseGoErrors(files, overlay, directiveLineCache, output)} :
         /\ directiveLineCache' = p.cache
         /\ buildDiagnostics' = IF p.threw THEN buildDiagnostics ELSE p.result
         /\ lastParse' = [ran |-> TRUE, output |-> output,
                          cacheBefore |-> directiveLineCache, result |-> p.result,
                          threw |-> p.threw, steps |-> p.steps]
  /\ inFlight' = inFlight - 1
  /\ UNCHANGED <<files, overlay, batches, indexSinceClear>>

(***************************************************************************)
(* SpecReconcile: one reconciliation batch over every input                *)
(***************************************************************************)

InitReconcile ==
  /\ files \in FileStates
  /\ overlay \in Overlays
  /\ directiveLineCache = EmptyMap
  /\ buildDiagnostics = EmptyMap
  /\ inFlight = 0
  /\ batches = 0
  /\ lastParse = NoParse
  /\ indexSinceClear = [p \in FilePaths |-> IndexesOf(files[p])]
  /\ activated = TRUE
  /\ buildCheckTimer = FALSE
  /\ InitWatch
  /\ InitOrder
  /\ InitDiagnose

NextReconcile ==
  \/ batches = 0 /\ CheckBuildNoOverlay /\ UNCHANGED <<callerVars, watchVars>> /\ UNCHANGED <<orderVars, diagVars>>
  \/ batches = 0 /\ CheckBuildStart /\ UNCHANGED <<callerVars, watchVars>> /\ UNCHANGED <<orderVars, diagVars>>
  \/ \E output \in Outputs : GoCheckDone(output) /\ UNCHANGED <<callerVars, watchVars>> /\ UNCHANGED <<orderVars, diagVars>>

SpecReconcile == InitReconcile /\ [][NextReconcile]_vars

(***************************************************************************)
(* SpecRepeat: the same output parsed twice over unchanged files           *)
(***************************************************************************)

RepeatEntries ==
  { Entry(RawA, 0, Msg1), Entry(RawA, 4, Msg1), Entry(RawA, 35, Msg1),
    Entry(RawA, 36, Msg1), Entry(PathS, 3, Msg1), Entry(PathS, 35, Msg1) }

RepeatOutputs == UNION { [1..n -> RepeatEntries] : n \in 0..MaxOutput }

\* Two checkBuildErrors calls, one after the other or overlapping, whose
\* compiler runs print the same output.
NextRepeat ==
  \/ batches < 2 /\ CheckBuildNoOverlay /\ UNCHANGED <<callerVars, watchVars>> /\ UNCHANGED <<orderVars, diagVars>>
  \/ batches < 2 /\ CheckBuildStart /\ UNCHANGED <<callerVars, watchVars>> /\ UNCHANGED <<orderVars, diagVars>>
  \/ \E output \in RepeatOutputs :
       /\ lastParse.ran => output = lastParse.output
       /\ GoCheckDone(output)
       /\ UNCHANGED <<callerVars, watchVars>>
       /\ UNCHANGED <<orderVars, diagVars>>

SpecRepeat == InitReconcile /\ [][NextRepeat]_vars

(***************************************************************************)
(* Spec: successive and overlapping batches while files and overlay change *)
(***************************************************************************)

\* The user (or the generator) rewrites a source or shadow file, or removes
\* it.
EditFile(p, text) ==
  /\ files[p] # text
  /\ files' = [files EXCEPT ![p] = text]
  /\ indexSinceClear' = [indexSinceClear EXCEPT ![p] = @ \cup IndexesOf(text)]
  /\ UNCHANGED <<overlay, directiveLineCache, buildDiagnostics, inFlight, batches, lastParse>>
  /\ UNCHANGED <<callerVars, watchVars>>

\* The generator writes overlay.json (creating or changing it) or removes
\* it.  Once the extension is active, the watcher's onDidCreate and
\* onDidChange handlers restart the 1 s debounce timer; a removal raises
\* no event.
WriteOverlay(ov) ==
  /\ UNCHANGED watchVars
  /\ overlay # ov \/ ov.state # "absent"
  /\ overlay' = ov
  /\ buildCheckTimer' = IF activated /\ ov.state # "absent" THEN TRUE ELSE buildCheckTimer
  /\ UNCHANGED <<files, directiveLineCache, buildDiagnostics, inFlight, batches, lastParse,
                 indexSinceClear, activated>>

\* activate(): the watcher is installed and runBuildCheck() is called.
Activate ==
  /\ UNCHANGED watchVars
  /\ ~activated
  /\ activated' = TRUE
  /\ UNCHANGED buildCheckTimer
  /\ checkBuildErrors

\* The debounce timer fires: runBuildCheck().
DebouncedBuildCheck ==
  /\ UNCHANGED watchVars
  /\ buildCheckTimer
  /\ buildCheckTimer' = FALSE
  /\ UNCHANGED activated
  /\ checkBuildErrors

\* The command inco.checkBuild.
ManualCheckBuild ==
  /\ activated
  /\ UNCHANGED <<callerVars, watchVars>>
  /\ checkBuildErrors

\* The compiler outputs of Spec: at most one matched line.
BatchOutputs ==
  { <<>> } \cup { <<e>> : e \in { Entry(RawA, 4, Msg1), Entry(RawA, 0, Msg1),
                                  Entry(PathS, 4, Msg1), Entry(RawB, 4, Msg1) } }

\* The workspace before any batch has run.
InitWorkspace ==
  /\ files = FileState(Texts.A1, Texts.S1)
  /\ overlay = OverlayTable(<< <<PathA, PathS>> >>)
  /\ directiveLineCache = EmptyMap
  /\ buildDiagnostics = EmptyMap
  /\ inFlight = 0
  /\ batches = 0
  /\ lastParse = NoParse
  /\ indexSinceClear = [p \in FilePaths |-> IndexesOf(files[p])]

Init ==
  /\ InitWorkspace
  /\ activated = FALSE
  /\ buildCheckTimer = FALSE
  /\ InitWatch
  /\ InitOrder
  /\ InitDiagnose

Next ==
  \/ batches < MaxBatches /\ Activate /\ UNCHANGED <<orderVars, diagVars>>
  \/ batches < MaxBatches /\ DebouncedBuildCheck /\ UNCHANGED <<orderVars, diagVars>>
  \/ batches < MaxBatches /\ ManualCheckBuild /\ UNCHANGED <<orderVars, diagVars>>
  \/ \E output \in BatchOutputs : GoCheckDone(output) /\ UNCHANGED <<callerVars, watchVars>> /\ UNCHANGED <<orderVars, diagVars>>
  \/ \E text \in {Texts.A1, Texts.A2, NoFile} : EditFile(PathA, text) /\ UNCHANGED <<orderVars, diagVars>>
  \/ \E text \in {Texts.S1, Texts.S2, NoFile} : EditFile(PathS, text) /\ UNCHANGED <<orderVars, diagVars>>
  \/ \E ov \in Overlays : WriteOverlay(ov) /\ UNCHANGED <<orderVars, diagVars>>

Spec == Init /\ [][Next]_vars

(***************************************************************************)
(* SpecOverlap: batches whose compiler runs finish in either order         *)
(***************************************************************************)

\* A checkBuildErrors call gets the next batch number.  With overlay.json
\* absent it completes at once with nothing to show; otherwise it joins the
\* batches awaiting their compiler.
TrackStart ==
  /\ pending' = IF overlay.state = "absent" THEN pending ELSE pending \cup {batches + 1}
  /\ batchResult' = IF overlay.state = "absent"
                    THEN [batchResult EXCEPT ![batches + 1] = [done |-> TRUE, result |-> EmptyMap]]
                    ELSE batchResult
  /\ overlapped' = (overlapped \/ pending # {})

\* The compiler of batch b has exited and the batch has parsed its output.
TrackDone(b) ==
  /\ b \in pending
  /\ pending' = pending \ {b}
  /\ batchResult' = [batchResult EXCEPT ![b] = [done |-> TRUE, result |-> lastParse'.result]]
  /\ UNCHANGED overlapped

\* Compiler outputs every parse of which returns.
OverlapOutputs ==
  { <<>>, <<Entry(RawA, 4, Msg1)>>, <<Entry(PathS, 35, Msg2)>> }

NextOverlap ==
  \/ batches < MaxBatches /\ Activate /\ TrackStart /\ UNCHANGED diagVars
  \/ batches < MaxBatches /\ DebouncedBuildCheck /\ TrackStart /\ UNCHANGED diagVars
  \/ batches < MaxBatches /\ ManualCheckBuild /\ TrackStart /\ UNCHANGED diagVars
  \/ \E b \in 1..MaxBatches, output \in OverlapOutputs :
       /\ GoCheckDone(output)
       /\ TrackDone(b)
       /\ UNCHANGED <<callerVars, watchVars, diagVars>>
  \/ \E ov \in Overlays : WriteOverlay(ov) /\ UNCHANGED <<orderVars, diagVars>>

SpecOverlap == Init /\ [][NextOverlap]_vars

(***************************************************************************)
(* SpecWatch: the watch process, its commands and the CLI commands         *)
(***************************************************************************)

\* A workspace in which nothing has been generated yet: no overlay.json and
\* no file the reconciler would read.
InitEmptyWorkspace ==
  /\ files = [p \in FilePaths |-> NoFile]
  /\ overlay = OverlayAbsent
  /\ directiveLineCache = EmptyMap
  /\ buildDiagnostics = EmptyMap
  /\ inFlight = 0
  /\ batches = 0
  /\ lastParse = NoParse
  /\ indexSinceClear = [p \in FilePaths |-> {}]

\* The extension is active and no watch process has been started.
InitWatching ==
  /\ InitEmptyWorkspace
  /\ activated = TRUE
  /\ buildCheckTimer = FALSE
  /\ InitWatch
  /\ InitOrder
  /\ InitDiagnose

NextWatch ==
  \/ WatchStart /\ UNCHANGED <<reconcileVars, callerVars>> /\ UNCHANGED <<orderVars, diagVars>>
  \/ WatchStop /\ UNCHANGED <<reconcileVars, callerVars>> /\ UNCHANGED <<orderVars, diagVars>>
  \/ WatchRestart /\ UNCHANGED <<reconcileVars, callerVars>> /\ UNCHANGED <<orderVars, diagVars>>
  \/ \E pid \in 1..MaxSpawns : ProcessCrash(pid) /\ UNCHANGED <<reconcileVars, callerVars>> /\ UNCHANGED <<orderVars, diagVars>>
  \/ \E pid \in 1..MaxSpawns : OnClose(pid) /\ UNCHANGED <<reconcileVars, callerVars>> /\ UNCHANGED <<orderVars, diagVars>>
  \/ RestartTimerFires /\ UNCHANGED <<reconcileVars, callerVars>> /\ UNCHANGED <<orderVars, diagVars>>
  \/ \E i \in 1..MaxPausedCalls :
       WithWatchPausedBegin(i) /\ UNCHANGED <<reconcileVars, callerVars>>
       /\ UNCHANGED <<orderVars, diagVars>>
  \/ \E i \in 1..MaxPausedCalls :
       WithWatchPausedCallFn(i) /\ UNCHANGED <<reconcileVars, callerVars>>
       /\ UNCHANGED <<orderVars, diagVars>>
  \/ \E i \in 1..MaxPausedCalls :
       WithWatchPausedFinally(i) /\ UNCHANGED <<reconcileVars, callerVars>>
       /\ UNCHANGED <<orderVars, diagVars>>

SpecWatch == InitWatching /\ [][NextWatch]_vars

(***************************************************************************)
(* SpecDiagnose: open, save, close and configuration events               *)
(***************************************************************************)

NextDiagnose ==
  \/ \E doc \in Docs :
       OnDidOpen(doc) /\ UNCHANGED <<reconcileVars, callerVars, watchVars, orderVars>>
  \/ \E doc \in Docs :
       OnDidSave(doc) /\ UNCHANGED <<reconcileVars, callerVars, watchVars, orderVars>>
  \/ \E doc \in Docs :
       OnDidClose(doc) /\ UNCHANGED <<reconcileVars, callerVars, watchVars, orderVars>>
  \/ \E value \in BOOLEAN :
       /\ OnDidChangeConfiguration(value)
       /\ UNCHANGED <<reconcileVars, callerVars, watchVars, orderVars>>
  \/ \E doc \in Docs :
       DebounceFires(doc) /\ UNCHANGED <<reconcileVars, callerVars, watchVars, orderVars>>
  \/ \E doc \in Docs, diags \in DiagnoseResults :
       /\ DiagnoseDone(doc, diags)
       /\ UNCHANGED <<reconcileVars, callerVars, watchVars, orderVars>>
  \/ \E doc \in Docs :
       DiagnoseFails(doc) /\ UNCHANGED <<reconcileVars, callerVars, watchVars, orderVars>>
  \/ Tick /\ UNCHANGED <<reconcileVars, callerVars, watchVars, orderVars>>

SpecDiagnose == InitWatching /\ [][NextDiagnose]_vars

(***************************************************************************)
(* What the claims speak about, stated from the texts themselves           *)
(***************************************************************************)

Max(S) == CHOOSE x \in S : \A y \in S : y <= x

Steps == lastParse.steps

\* parseGoErrors returned a map (it did not throw).
Returned == lastParse.ran /\ ~lastParse.threw

\* The iteration reached the de-duplication, so its diagnostic is in the map.
Emitted(step) == step.outcome \in {"pushed", "dup"}

HasDiag(result, file, line, message) ==
  /\ file \in DOMAIN result
  /\ \E k \in 1..Len(result[file]) :
       result[file][k].line = line /\ result[file][k].message = message

\* The 0-based numbers of the marker lines of file p at or before line L.
MarkersAtOrBefore(fs, p, L) ==
  IF ~Readable(fs, p) THEN {}
  ELSE { m \in 0..(Len(ReadLines(fs, p)) - 1) :
           m <= L /\ ReadLines(fs, p)[m + 1].lineRe # <<>> }

\* (N - 1) + (L - m - 1) for the greatest marker line m <= L, declaring N.
MarkerMapped(fs, p, L) ==
  LET m == Max(MarkersAtOrBefore(fs, p, L))
      N == ParseInt(ReadLines(fs, p)[m + 1].lineRe)
  IN  (N - 1) + (L - m - 1)

\* The 0-based numbers of the directive lines of file p.
DirectiveLinesOf(fs, p) ==
  IF ~Readable(fs, p) THEN {}
  ELSE { d \in 0..(Len(ReadLines(fs, p)) - 1) : ReadLines(fs, p)[d + 1].directiveRe }

\* The greatest directive line of p at or before raw when it is at most
\* MaxSnapDistance lines away, NotFound otherwise.
NearestDirective(fs, p, raw) ==
  LET D == { d \in DirectiveLinesOf(fs, p) : d <= raw }
  IN  IF D = {} THEN NotFound
      ELSE IF raw - Max(D) > MaxSnapDistance THEN NotFound
      ELSE Max(D)

SnappedOrRaw(fs, p, raw) ==
  IF NearestDirective(fs, p, raw) # NotFound THEN NearestDirective(fs, p, raw) ELSE raw

\* The file lies inside the directory: the directory's segments are a
\* proper prefix of the file's.
InsideDirectory(file, dir) ==
  LET f == NormalizeFrom(Segments(file), 1, <<>>)
      d == NormalizeFrom(Segments(dir), 1, <<>>)
  IN  Len(d) < Len(f) /\ SubSeq(f, 1, Len(d)) = d

HasNoisePrefix(message) ==
  StartsWith(message, TooManyErrors) \/ StartsWith(message, <<"#">>)

EndsWithSourceSuffix(p) == EndsWith(p, SuffixIncoGo) \/ EndsWith(p, SuffixInco)

\* The reverse index as the table gives it: shadow -> the source of the last
\* entry that names the shadow.
ReverseIndexValues ==
  { overlay.Replace[k][1] : k \in 1..Len(overlay.Replace) }

ReverseIndexKeys ==
  IF overlay.state # "table" THEN {}
  ELSE { overlay.Replace[k][2] : k \in 1..Len(overlay.Replace) }

\* What a fresh parseGoErrors call makes of an output, cache included.
Outcome(output) ==
  LET p == parseGoErrors(files, overlay, EmptyMap, output)
  IN  [result |-> p.result, threw |-> p.threw, cache |-> p.cache]

LastOutcome ==
  [result |-> lastParse.result, threw |-> lastParse.threw, cache |-> directiveLineCache]

(***************************************************************************)
(* Claims                                                                  *)
(***************************************************************************)

\* C1: whenever the shadow file has a marker line at or before the reported
\* line L, mapShadowLineToSource returns (N - 1) + (L - m - 1) for the
\* greatest marker line m <= L, which declares N; markers after L and
\* markers before m do not matter.
C1_MarkerArithmetic ==
  \A k \in 1..Len(Steps) :
    (Steps[k].kase = "B"
     /\ MarkersAtOrBefore(files, Steps[k].absFile, Steps[k].errorLine) # {})
    => Steps[k].mapped = MarkerMapped(files, Steps[k].absFile, Steps[k].errorLine)

\* A shadow line with two markers at or before it was mapped to a line of
\* the source that differs from the raw line.
C1_Witness ==
  \E k \in 1..Len(Steps) :
    /\ Steps[k].kase = "B"
    /\ Cardinality(MarkersAtOrBefore(files, Steps[k].absFile, Steps[k].errorLine)) >= 2
    /\ Steps[k].mapped >= 0
    /\ Steps[k].mapped # Steps[k].errorLine

\* C2: a line d that snapToDirectiveLine returns is a directive line of the
\* file, d <= raw, no directive line lies in (d, raw], and a raw line that is
\* a directive line is returned unchanged.
C2_SnapNeverForward ==
  \A k \in 1..Len(Steps) :
    (Steps[k].snapped /\ Steps[k].snapRet # NotFound)
    => LET D == DirectiveLinesOf(files, Steps[k].sourceFile)
           d == Steps[k].snapRet
           raw == Steps[k].snapLine
       IN  /\ d \in D
           /\ d <= raw
           /\ ~\E x \in D : d < x /\ x <= raw
           /\ (raw \in D => d = raw)

\* A raw line was snapped back over code lines to the later of two directive
\* lines before it.
C2_Witness ==
  \E k \in 1..Len(Steps) :
    /\ Steps[k].snapped
    /\ Steps[k].snapRet # NotFound
    /\ Steps[k].snapRet < Steps[k].snapLine
    /\ \E x \in DirectiveLinesOf(files, Steps[k].sourceFile) : x < Steps[k].snapRet

\* C3: snapToDirectiveLine returns NotFound exactly when the file has no
\* directive line at or before raw or the greatest one is more than 30 lines
\* away, and returns that greatest directive line otherwise (30 included).
C3_SnapNotFoundExactly ==
  \A k \in 1..Len(Steps) :
    Steps[k].snapped
    => Steps[k].snapRet = NearestDirective(files, Steps[k].sourceFile, Steps[k].snapLine)

\* One parse snapped a line 30 lines after a directive and left alone a line
\* 31 lines after it.
C3_Witness ==
  \E j \in 1..Len(Steps), k \in 1..Len(Steps) :
    /\ Steps[j].snapped
    /\ Steps[j].snapRet # NotFound
    /\ Steps[j].snapLine - Steps[j].snapRet = MaxSnapDistance
    /\ Steps[k].snapped
    /\ Steps[k].snapRet = NotFound
    /\ Steps[k].sourceFile = Steps[j].sourceFile
    /\ Steps[k].snapLine = Steps[j].snapLine + 1

\* C4: in Case A (the resolved path ends in .inco.go or .inco) the original
\* file is the path itself and the output line is the nearest directive line
\* at or before the raw line within 30 lines, or else exactly the raw line
\* (reportedLine - 1).
C4_CaseAOutputLine ==
  \A k \in 1..Len(Steps) :
    (Steps[k].kase # "noise" /\ EndsWithSourceSuffix(Steps[k].absFile))
    => /\ Steps[k].kase = "A"
       /\ Steps[k].sourceFile = Steps[k].absFile
       /\ Steps[k].errorLine = Steps[k].entry.line - 1
       /\ Steps[k].sourceLine =
            SnappedOrRaw(files, Steps[k].absFile, Steps[k].entry.line - 1)
       /\ (Returned /\ Emitted(Steps[k]))
          => HasDiag(lastParse.result, Steps[k].absFile,
                     SnappedOrRaw(files, Steps[k].absFile, Steps[k].entry.line - 1),
                     Steps[k].entry.msg)

\* A Case A diagnostic was emitted at its raw line although the file has a
\* directive line before it, more than 30 lines away.
C4_Witness ==
  /\ Returned
  /\ \E k \in 1..Len(Steps) :
       /\ Steps[k].kase = "A"
       /\ Steps[k].outcome = "pushed"
       /\ Steps[k].sourceLine = Steps[k].errorLine
       /\ \E d \in DirectiveLinesOf(files, Steps[k].absFile) : d < Steps[k].errorLine
       /\ HasDiag(lastParse.result, Steps[k].absFile, Steps[k].errorLine, Steps[k].entry.msg)

\* C5: in Case B (the resolved path is a key of the reverse table) the
\* original file is the table's entry and, when the shadow file has a marker
\* at or before the reported line, the output line is the snap of the marker
\* mapping, or the marker mapping itself when no directive is found.
C5_CaseBOutputLine ==
  \A k \in 1..Len(Steps) :
    (/\ Steps[k].kase = "B"
     /\ MarkersAtOrBefore(files, Steps[k].absFile, Steps[k].errorLine) # {}
     /\ Returned
     /\ Emitted(Steps[k]))
    => /\ Steps[k].sourceFile = buildReverseOverlay(overlay)[Steps[k].absFile]
       /\ HasDiag(lastParse.result, Steps[k].sourceFile,
                  SnappedOrRaw(files, Steps[k].sourceFile,
                               MarkerMapped(files, Steps[k].absFile, Steps[k].errorLine)),
                  Steps[k].entry.msg)

\* C6: in Case B, when the shadow file has no marker line at or before the
\* reported line, the output line is the raw line, not snapped.
C6_NoMarkerKeepsRawLine ==
  \A k \in 1..Len(Steps) :
    (/\ Steps[k].kase = "B"
     /\ Readable(files, Steps[k].absFile)
     /\ MarkersAtOrBefore(files, Steps[k].absFile, Steps[k].errorLine) = {})
    => /\ Steps[k].sourceLine = Steps[k].entry.line - 1
       /\ ~Steps[k].snapped
       /\ (Returned /\ Emitted(Steps[k]))
          => HasDiag(lastParse.result, Steps[k].sourceFile, Steps[k].entry.line - 1,
                     Steps[k].entry.msg)

\* A Case B diagnostic without a preceding marker was emitted at its raw line
\* although the original file has a directive line that snapping would have
\* moved it to.
C6_Witness ==
  /\ Returned
  /\ \E k \in 1..Len(Steps) :
       /\ Steps[k].kase = "B"
       /\ Readable(files, Steps[k].absFile)
       /\ MarkersAtOrBefore(files, Steps[k].absFile, Steps[k].errorLine) = {}
       /\ Steps[k].outcome = "pushed"
       /\ NearestDirective(files, Steps[k].sourceFile, Steps[k].errorLine)
            \notin {NotFound, Steps[k].errorLine}
       /\ HasDiag(lastParse.result, Steps[k].sourceFile, Steps[k].errorLine,
                  Steps[k].entry.msg)

\* C7: no file's list in the returned map holds two diagnostics with the
\* same line and message.
C7_NoDuplicateDiagnostics ==
  Returned
  => \A f \in DOMAIN lastParse.result :
       \A i \in 1..Len(lastParse.result[f]), j \in 1..Len(lastParse.result[f]) :
         i # j => lastParse.result[f][i] # lastParse.result[f][j]

\* Two raw diagnostics with different reported paths resolved to the same
\* file, line and message, and the second was dropped.
C7_Witness ==
  /\ Returned
  /\ \E i \in 1..Len(Steps), j \in 1..Len(Steps) :
       /\ i < j
       /\ Steps[i].outcome = "pushed"
       /\ Steps[j].outcome = "dup"
       /\ Steps[i].entry.file # Steps[j].entry.file
       /\ Steps[i].entry.line # Steps[j].entry.line
       /\ Len(lastParse.result[Steps[j].sourceFile]) = 1

\* C8: no key of the returned map is a file outside the workspace directory.
C8_OutputInsideWorkspace ==
  Returned => \A f \in DOMAIN lastParse.result : InsideDirectory(f, WsDir)

\* C9: every key of the returned map is an original-tree path that appeared
\* in the raw output or a value of the reverse index, and the raw
\* diagnostics of other paths contribute nothing: without them the call
\* yields the same map.
C9_OtherPathsContributeNothing ==
  lastParse.ran
  => /\ \A f \in DOMAIN lastParse.result :
          \/ /\ EndsWithSourceSuffix(f)
             /\ \E k \in 1..Len(lastParse.output) : AbsFile(lastParse.output[k].file) = f
          \/ f \in ReverseIndexValues
     /\ LastOutcome =
          Outcome(SelectSeq(lastParse.output,
                            LAMBDA e : \/ EndsWithSourceSuffix(AbsFile(e.file))
                                       \/ AbsFile(e.file) \in ReverseIndexKeys))

\* A raw diagnostic of a plain .go file was dropped and a later one of the
\* same output was kept.
C9_Witness ==
  /\ Returned
  /\ \E i \in 1..Len(Steps), j \in 1..Len(Steps) :
       /\ i < j
       /\ Steps[i].outcome = "other"
       /\ ~EndsWithSourceSuffix(Steps[i].absFile)
       /\ Steps[i].absFile \notin ReverseIndexKeys
       /\ Steps[j].outcome = "pushed"

\* C10: no diagnostic of the returned map has a message that starts with
\* "too many errors" or "#"; such lines are skipped before any path is
\* resolved or file read, and the lines after them are processed: without
\* them the call yields the same map and the same cache.
C10_NoiseSkipped ==
  lastParse.ran
  => /\ \A f \in DOMAIN lastParse.result :
          \A k \in 1..Len(lastParse.result[f]) :
            ~HasNoisePrefix(lastParse.result[f][k].message)
     /\ LastOutcome =
          Outcome(SelectSeq(lastParse.output, LAMBDA e : ~HasNoisePrefix(e.msg)))

\* A line with a noise message was skipped and a later line of the same
\* output was kept.
C10_Witness ==
  /\ Returned
  /\ \E i \in 1..Len(Steps), j \in 1..Len(Steps) :
       /\ i < j
       /\ HasNoisePrefix(Steps[i].entry.msg)
       /\ Steps[i].outcome = "noise"
       /\ Steps[j].outcome = "pushed"
       /\ Steps[j].sourceFile \in DOMAIN lastParse.result

\* C11: parsing the same output a second time over the same files and the
\* same table returns the same map (same keys, same diagnostics in the same
\* order) and ends the same way, whether the cache was cleared in between
\* (the second call began after the first parse) or not (it began before).
C11_Idempotent ==
  [][(/\ lastParse.ran
      /\ inFlight' = inFlight - 1
      /\ lastParse'.output = lastParse.output)
     => (/\ lastParse'.result = lastParse.result
         /\ lastParse'.threw = lastParse.threw
         /\ buildDiagnostics' = buildDiagnostics)]_vars

\* The second parse found the index of a file in the cache, left there by
\* the first, and returned a map with a snapped diagnostic of that file.
C11_Witness ==
  /\ batches = 2
  /\ inFlight = 0
  /\ Returned
  /\ \E k \in 1..Len(Steps) :
       /\ Steps[k].snapped
       /\ Steps[k].snapRet # NotFound
       /\ Steps[k].outcome = "pushed"
       /\ Steps[k].sourceFile \in DOMAIN lastParse.cacheBefore

\* C12: when overlay.json is absent or is not valid JSON the reconciler does
\* not fail: a call that finds no overlay.json clears the collection, a parse
\* returns a map, no raw diagnostic of a path outside the original tree
\* yields an entry, and every raw diagnostic of an original-tree path inside
\* the workspace is in the map at its snapped line, or at its raw line when
\* snap finds nothing.
C12_OverlayMissingDegrades ==
  /\ (overlay.state = "absent" /\ batches > 0 /\ ~lastParse.ran)
     => buildDiagnostics = EmptyMap
  /\ (lastParse.ran /\ overlay.state \in {"absent", "invalid"})
     => /\ ~lastParse.threw
        /\ \A f \in DOMAIN lastParse.result : EndsWithSourceSuffix(f)
        /\ \A k \in 1..Len(lastParse.output) :
             LET e == lastParse.output[k]
                 abs == AbsFile(e.file)
             IN  (/\ ~HasNoisePrefix(e.msg)
                  /\ EndsWithSourceSuffix(abs)
                  /\ InsideDirectory(abs, WsDir))
                 => HasDiag(lastParse.result, abs,
                            SnappedOrRaw(files, abs, e.line - 1), e.msg)

\* The original file a raw diagnostic of path abs belongs to: abs itself in
\* Case A, the reverse table's entry in Case B.
OriginalOf(abs) ==
  IF EndsWithSourceSuffix(abs) THEN abs ELSE buildReverseOverlay(overlay)[abs]

\* Resolving the raw diagnostic e meets a file that cannot be read: the
\* original file in Case A; in Case B the generated file, or the original
\* file once a marker of the generated file gave a line to snap.
ReadFails(fs, e) ==
  LET abs == AbsFile(e.file)
  IN  IF EndsWithSourceSuffix(abs) THEN ~Readable(fs, abs)
      ELSE IF abs \in ReverseIndexKeys
      THEN \/ ~Readable(fs, abs)
           \/ /\ MarkersAtOrBefore(fs, abs, e.line - 1) # {}
              /\ ~Readable(fs, OriginalOf(abs))
      ELSE FALSE

\* C13: a raw diagnostic whose resolution meets a file that cannot be read
\* (the generated file while looking for markers, the original file while
\* indexing directives) is still emitted, at the raw line reportedLine - 1,
\* when its original file lies in the workspace.
C13_ReadFailureKeepsRawLine ==
  lastParse.ran
  => \A k \in 1..Len(lastParse.output) :
       LET e == lastParse.output[k]
       IN  (/\ ~HasNoisePrefix(e.msg)
            /\ ReadFails(files, e)
            /\ InsideDirectory(OriginalOf(AbsFile(e.file)), WsDir))
           => /\ Returned
              /\ HasDiag(lastParse.result, OriginalOf(AbsFile(e.file)), e.line - 1, e.msg)

\* The raw diagnostic e is of Case A or Case B.
IsCaseAOrB(e) ==
  EndsWithSourceSuffix(AbsFile(e.file)) \/ AbsFile(e.file) \in ReverseIndexKeys

\* The raw diagnostic e is a bad entry: its reported line is 0, or the
\* marker arithmetic of its generated file gives a negative line.
IsBadEntry(fs, e) ==
  \/ e.line < 1
  \/ /\ ~EndsWithSourceSuffix(AbsFile(e.file))
     /\ MarkersAtOrBefore(fs, AbsFile(e.file), e.line - 1) # {}
     /\ MarkerMapped(fs, AbsFile(e.file), e.line - 1) < 0

HasMessage(result, file, message) ==
  /\ file \in DOMAIN result
  /\ \E k \in 1..Len(result[file]) : result[file][k].message = message

\* C14: every parse returns a map, checkBuildErrors puts that map into the
\* collection, and every Case A or Case B diagnostic of the workspace that is
\* not itself a bad entry is in it, whatever other entries the output holds.
C14_BatchNeverFails ==
  lastParse.ran
  => /\ Returned
     /\ buildDiagnostics = lastParse.result
     /\ \A k \in 1..Len(lastParse.output) :
          LET e == lastParse.output[k]
          IN  (/\ ~HasNoisePrefix(e.msg)
               /\ IsCaseAOrB(e)
               /\ ~IsBadEntry(files, e)
               /\ InsideDirectory(OriginalOf(AbsFile(e.file)), WsDir))
              => HasMessage(buildDiagnostics, OriginalOf(AbsFile(e.file)), e.msg)

\* The original path of the first entry of the table, in table order, whose
\* generated path is shadow.
FirstSourceOf(shadow) ==
  LET first == CHOOSE k \in 1..Len(overlay.Replace) :
                 /\ overlay.Replace[k][2] = shadow
                 /\ \A j \in 1..(k - 1) : overlay.Replace[j][2] # shadow
  IN  overlay.Replace[first][1]

\* C18: the reverse index a parse builds maps a generated path to the first
\* original path the table gives for it, and every Case B diagnostic of that generated path
\* is attributed to that first original path.
C18_FirstMatchWins ==
  /\ lastParse.ran
     => \A shadow \in ReverseIndexKeys :
          buildReverseOverlay(overlay)[shadow] = FirstSourceOf(shadow)
  /\ \A k \in 1..Len(Steps) :
       Steps[k].kase = "B" => Steps[k].sourceFile = FirstSourceOf(Steps[k].absFile)

\* C19: every index in the directive-line cache is strictly increasing and
\* holds exactly the numbers of the lines of its file that contain a directive
\* comment, once each; the search of snapToDirectiveLine leaves the index as
\* it is and, stopping at the first entry greater than the raw line, still
\* finds the greatest entry at or before it.
C19_IndexStrictlyIncreasing ==
  /\ \A p \in DOMAIN directiveLineCache :
       LET index == directiveLineCache[p]
       IN  /\ \A i \in 1..Len(index), j \in 1..Len(index) : i < j => index[i] < index[j]
           /\ { index[i] : i \in 1..Len(index) } = DirectiveLinesOf(files, p)
  /\ \A k \in 1..Len(Steps) :
       (Steps[k].snapped /\ Steps[k].sourceFile \in DOMAIN directiveLineCache)
       => /\ Steps[k].index = directiveLineCache[Steps[k].sourceFile]
          /\ \A i \in 1..Len(Steps[k].index) :
               (/\ Steps[k].index[i] <= Steps[k].snapLine
                /\ Steps[k].snapLine - Steps[k].index[i] <= MaxSnapDistance)
               => Steps[k].snapRet >= Steps[k].index[i]

\* The cache holds an index of two lines, and a search in it went past the
\* first entry and stopped at the second, which lies after the raw line.
C19_Witness ==
  \E k \in 1..Len(Steps) :
    /\ Steps[k].snapped
    /\ Steps[k].sourceFile \in DOMAIN directiveLineCache
    /\ Len(directiveLineCache[Steps[k].sourceFile]) = 2
    /\ Steps[k].snapRet = directiveLineCache[Steps[k].sourceFile][1]
    /\ Steps[k].snapRet < Steps[k].snapLine
    /\ Steps[k].snapLine < directiveLineCache[Steps[k].sourceFile][2]

\* C15: a checkBuildErrors call that goes on to run the compiler first
\* empties the directive-line cache; every index a parse snaps with was built
\* from contents the file has had since the cache was last cleared, which is
\* no earlier than the start of the batch that parses; and when the file has
\* had only its present contents since then (it was edited before the batch
\* began), the parse snaps against the present directive lines.
C15_CacheClearedPerBatch ==
  [][/\ inFlight' = inFlight + 1 => directiveLineCache' = EmptyMap
     /\ inFlight' = inFlight - 1
        => \A k \in 1..Len(lastParse'.steps) :
             LET step == lastParse'.steps[k]
             IN  (step.snapped /\ step.sourceFile \in DOMAIN directiveLineCache')
                 => /\ step.index \in indexSinceClear[step.sourceFile]
                    /\ indexSinceClear[step.sourceFile] = IndexesOf(files[step.sourceFile])
                       => step.snapRet =
                            NearestDirective(files, step.sourceFile, step.snapLine)]_vars

\* The source file was edited before the second batch began, and the second
\* batch, starting from an empty cache, snapped a diagnostic to a directive
\* line of the new contents that the old contents do not have.
C15_Witness ==
  /\ batches = 2
  /\ inFlight = 0
  /\ files[PathA] = Texts.A2
  /\ indexSinceClear[PathA] = IndexesOf(Texts.A2)
  /\ lastParse.ran
  /\ lastParse.cacheBefore = EmptyMap
  /\ \E k \in 1..Len(Steps) :
       /\ Steps[k].snapped
       /\ Steps[k].sourceFile = PathA
       /\ Steps[k].snapRet # NotFound
       /\ Steps[k].snapRet \notin DirectiveLinesOf(FileState(Texts.A1, Texts.S1), PathA)

\* C16: at no time are two checkBuildErrors executions between their cache
\* clear and the application of their diagnostics, whichever of the activation
\* run, the debounced overlay-watcher callback and the manual command started
\* them.
C16_AtMostOneBatchInFlight ==
  inFlight <= 1

\* C17: when a batch completes with overlay.json present, every file of the
\* batch's grouped result has exactly its diagnostics in the collection, and
\* every file that had diagnostics before and is not in the result has none.
C17_CollectionIsBatchResult ==
  [][(inFlight' = inFlight - 1 /\ overlay.state # "absent")
     => /\ \A f \in DOMAIN lastParse'.result :
             /\ f \in DOMAIN buildDiagnostics'
             /\ buildDiagnostics'[f] = lastParse'.result[f]
        /\ \A f \in DOMAIN buildDiagnostics :
             f \notin DOMAIN lastParse'.result => f \notin DOMAIN buildDiagnostics']_vars

\* The `inco watch` processes the extension started that are running.
RunningWatches == { pid \in DOMAIN procs : procs[pid] = "running" }

\* The withWatchPaused calls whose fn is executing.
ExecutingFn == { i \in DOMAIN pausedCalls : pausedCalls[i].pc = "fn" }

\* C20: while the function passed to a withWatchPaused call is executing, no
\* `inco watch` process started by the extension is running.
C20_NoWatchWhileFnRuns ==
  ExecutingFn # {} => RunningWatches = {}

\* C28: every diagnostic parseGoErrors builds (the entry is a Case A or Case B
\* match whose file is in the workspace) has a line number that is not
\* negative, and so has every diagnostic in the map it returns.
C28_LineNeverNegative ==
  lastParse.ran
  => /\ \A k \in 1..Len(Steps) :
          Steps[k].outcome \notin {"noise", "other", "outside"} => Steps[k].sourceLine >= 0
     /\ \A f \in DOMAIN lastParse.result :
          \A j \in 1..Len(lastParse.result[f]) : lastParse.result[f][j].line >= 0

\* C29: in Case B, mapShadowLineToSource returns NotFound only when the
\* generated file cannot be read or has no marker line at or before the
\* reported line.
C29_NotFoundOnlyWithoutMarker ==
  lastParse.ran
  => \A k \in 1..Len(Steps) :
       (Steps[k].kase = "B" /\ Steps[k].mapped = NotFound)
       => MarkersAtOrBefore(files, Steps[k].absFile, Steps[k].errorLine) = {}

\* C30: when batches have overlapped and none is awaiting its compiler any
\* more, the collection holds the result of the batch that started last.
C30_LastStartedWins ==
  (overlapped /\ pending = {}) => buildDiagnostics = batchResult[batches].result

\* Call i of withWatchPaused takes the step in which its fn settles.
FnSettles(i) ==
  pausedCalls[i].pc = "fn" /\ pausedCalls'[i].pc \in {"resolved", "rejected"}

C22_OneWatchAndExactHandle ==
  /\ Cardinality(RunningWatches) <= 1
  /\ isWatchRunning => procs[watchProcess] \in {"running", "crashed"}
  /\ RunningWatches # {} => watchProcess \in RunningWatches

\* C23: a restart timer is set only by the close of a process that exited on
\* its own with a non-zero code while _intentionallyStopped was false; the
\* close of a process that stopWatch ended sets none; and a restart timer that
\* fires after a stop (_intentionallyStopped is true) or while a process
\* started since is running spawns nothing.
C23_AutoRestartOnlyAfterCrash ==
  [][/\ restartTimers' > restartTimers
        => \E pid \in DOMAIN procs :
             /\ procs[pid] = "crashed"
             /\ procs'[pid] = "closed"
             /\ ~intentionallyStopped
     /\ \A pid \in DOMAIN procs :
          (procs[pid] = "killed" /\ procs'[pid] = "closed") => restartTimers' = restartTimers
     /\ (restartTimers' < restartTimers /\ (intentionallyStopped \/ RunningWatches # {}))
        => procs' = procs]_vars

\* C24: from a call of stopWatch by inco.watchStop or by the dispose until
\* the next inco.watchStart or inco.watchRestart, no watch process the
\* extension started is running.
C24_StoppedStaysStopped ==
  stopRequested => RunningWatches = {}

\* The step is a scheduleDiagnose for document d that set a timeout.
SchedulesFor(d) ==
  /\ timeouts'[d] # timeouts[d]
  /\ timeouts'[d] # <<>>
  /\ timeouts'[d][Len(timeouts'[d])] = DebounceTicks

\* C25: every document has at most one timeout pending, and exactly one
\* while events of it are waiting for their runDiagnose; a runDiagnose begins
\* only for a document with waiting events, DEBOUNCE_MS after the last of
\* them, and serves them all; and scheduling for one document leaves the
\* timeout and the map key of every other document alone.
C25_DebouncePerFile ==
  [][/\ \A d \in Docs :
          /\ Len(timeouts'[d]) <= 1
          /\ unserved'[d] # "none" => Len(timeouts'[d]) = 1
          /\ (d \in debounceTimers') <=> (timeouts'[d] # <<>>)
     /\ \A d \in Docs :
          diagnoseRuns'[d] > diagnoseRuns[d]
          => /\ unserved[d] # "none"
             /\ unserved'[d] = "none"
             /\ sinceEvent[d] = DebounceTicks
             /\ timeouts'[d] = <<>>
     /\ \A d \in Docs : \A e \in Docs \ {d} :
          SchedulesFor(d)
          => /\ timeouts'[e] = timeouts[e]
             /\ (e \in debounceTimers') <=> (e \in debounceTimers)]_vars

\* The burst of one document has been served by a run that is awaiting its
\* output, while a burst of two events of another document has one timeout
\* pending, set by its second event.
C25_Witness ==
  /\ diagnoseRuns[PathA] = 1
  /\ unserved[PathA] = "none"
  /\ timeouts[PathA] = <<>>
  /\ unserved[PathB] = "several"
  /\ Len(timeouts[PathB]) = 1
  /\ sinceEvent[PathB] = 1
  /\ timeouts[PathB][1] = DebounceTicks - 1

\* C26: the collection holds no entry for a document that is closed.
C26_ClosedDocumentHasNoEntry ==
  \A d \in Docs : d \notin openDocs => d \notin DOMAIN diagnosticCollection

\* C27: while inco.diagnostics.enabled is false the collection is empty.
C27_DisabledKeepsCollectionEmpty ==
  ~enabled => diagnosticCollection = EmptyMap

====
